---- MODULE Spec2Model ----
(***************************************************************************)
(* A model of douban.py: the proof-of-work solver (_solve_pow), the        *)
(* checkpoint interceptor (_maybe_handle_pow / get_tree), the paginated    *)
(* scrape with its 5-thread pool (scrape), and the merge of the fresh      *)
(* result set with the previously saved list (main).                       *)
(*                                                                         *)
(* Six specifications share the module:                                    *)
(*   SpecPow  the brute-force loop of _solve_pow, one iteration per step;  *)
(*   SpecRec  main() seen sequentially with the records' contents;         *)
(*   Spec     main() with its threads: the main thread, the pool's tasks,  *)
(*            the HTTP requests in flight and the global lock;             *)
(*   SpecPool the same steps as Spec on a listing long enough to keep all  *)
(*            five workers busy;                                           *)
(*   SpecFair the same steps under fair scheduling, for termination;       *)
(*   SpecParse parse_page on the title and comment texts of one item.      *)
(***************************************************************************)
EXTENDS Integers, Sequences, FiniteSets, TLC

\* ------------------------------------------------------------------ bounds
MaxNonce == 4        \* SpecPow: candidates tried before the model stops the loop
MaxZeros == 2        \* SpecPow: leading '0' characters a digest of the model can have
MaxDifficulty == 3   \* SpecPow: largest difficulty drawn
MaxId == 2           \* SpecRec: subject ids are 1..MaxId
MaxLen == 2          \* SpecRec: longest previous list; most ids in the result set
MaxTotal == 4        \* Spec: most pages the user's listing has
MaxEvents == 3       \* Spec: checkpoint pages, errors and detail fetches of a run
MaxPoolTotal == 7    \* SpecPool: pages of the user's listing
MaxPoolEvents == 1   \* SpecPool: checkpoint pages, errors and detail fetches of a run
MaxFairTotal == 4    \* SpecFair: most pages the user's listing has
MaxFairEvents == 3   \* SpecFair: checkpoint pages, errors and detail fetches of a run
MaxTitle == 5        \* SpecParse: longest text of an item's title element
MaxComment == 1      \* SpecParse: longest text of an item's comment element

\* ------------------------------------------------------- program constants
PoolSize == 5        \* ThreadPoolExecutor(max_workers=5)
PageSize == 15       \* items of a listing page: start={p * 15}

VARIABLES
    \* _solve_pow
    difficulty, nonce, zeros, sol,
    \* main, sequential view with data
    rpc, results, old, data, jsonFile, mdFile,
    \* main with its threads (ptree is the tree that parse_page is given,
    \* ppage the listing page it is the tree of)
    listing, max_pages, mpc, cur, ptree, ppage, total, last_page, raising,
    pc, first, hist, tree, pow_lock,
    evLeft, failed, jsonWritten, mdWritten,
    \* what the run has done so far: each call's POST status, the listing
    \* urls requested, the pages merged, the result dict (as the page each
    \* id's record was taken from)
    posted, sent, merged, keyPage,
    \* parse_page on one item
    ppc, title_text, comment_text, record

powVars == <<difficulty, nonce, zeros, sol>>
recVars == <<rpc, results, old, data, jsonFile, mdFile>>
mainVars == <<listing, max_pages, mpc, cur, ptree, ppage, total, last_page, raising>>
callVars == <<pc, first, hist, tree, pow_lock>>
envVars == <<evLeft>>
outVars == <<failed, jsonWritten, mdWritten>>
logVars == <<posted, sent, merged, keyPage>>
runVars == <<mainVars, callVars, envVars, outVars, logVars>>
parseVars == <<ppc, title_text, comment_text, record>>
vars == <<powVars, recVars, runVars, parseVars>>

\* ------------------------------------------------------------ _solve_pow
\* A digest is kept as the number of '0' characters it starts with: that is
\* all that digest.startswith("0" * difficulty) reads.  zeros[n] is that
\* number for sha512(cha + str(n)): for a given cha the hash is a fixed
\* unknown function of n, so each candidate's digest is drawn once, when
\* the loop computes it, and every challenge is some such drawing.
\* sol is what _solve_pow has returned: nothing yet ({}) or the nonce ({n}).
\* digest.startswith(target); the variant asks for one zero more.
StartsWithMut(z, d) == z > d
StartsWith(z, d) == z >= d

PowInit ==
    /\ difficulty \in 0..MaxDifficulty
    /\ nonce = 0
    /\ zeros = <<>>
    /\ sol = {}

\* One iteration of `while True`: nonce += 1, hash, test, maybe return.
PowStep ==
    /\ sol = {}
    /\ nonce < MaxNonce
    /\ \E z \in 0..MaxZeros :
        /\ nonce' = nonce + 1
        /\ zeros' = Append(zeros, z)
        /\ sol' = IF StartsWith(z, difficulty) THEN {nonce + 1} ELSE {}
    /\ UNCHANGED <<difficulty, recVars, runVars, parseVars>>

\* ------------------------------------------------------------------ main
\* rated_at is a "YYYY-MM-DD" string, compared by Python as a string: kept
\* as the sequence of its characters' codes, compared lexicographically.
D2020 == <<50, 48, 50, 48, 45, 48, 49, 45, 48, 49>>   \* "2020-01-01"
D2023 == <<50, 48, 50, 51, 45, 48, 53, 45, 48, 53>>   \* "2023-05-05"
Dates == {D2020, D2023}
Ids == 1..MaxId
Records == [id : Ids, rated_at : Dates]

RECURSIVE StrLess(_, _)
StrLess(a, b) ==
    IF b = <<>> THEN FALSE
    ELSE IF a = <<>> THEN TRUE
    ELSE IF Head(a) # Head(b) THEN Head(a) < Head(b)
    ELSE StrLess(Tail(a), Tail(b))

SeqsUpTo(S, n) == UNION {[1..k -> S] : k \in 0..n}
Range(s) == {s[i] : i \in 1..Len(s)}
IdsOf(s) == {s[i].id : i \in 1..Len(s)}

\* A Python dict keyed by id, as the sequence of its values in insertion
\* order.  d[r.id] = r: an existing key keeps its place and takes the new
\* value, a new key goes last.  (The variant keeps the value an existing
\* key has.)
DictSetMut(d, r) == IF r.id \in IdsOf(d) THEN d ELSE Append(d, r)
DictSet(d, r) ==
    IF r.id \in IdsOf(d)
    THEN [i \in 1..Len(d) |-> IF d[i].id = r.id THEN r ELSE d[i]]
    ELSE Append(d, r)

RECURSIVE DictFrom(_, _)
DictFrom(d, s) == IF s = <<>> THEN d ELSE DictFrom(DictSet(d, Head(s)), Tail(s))

DictGet(d, k) == d[CHOOSE i \in 1..Len(d) : d[i].id = k]

\* list.sort(key=rated_at, reverse=True): stable, descending.
RECURSIVE InsertDesc(_, _)
InsertDesc(s, r) ==
    IF s = <<>> THEN <<r>>
    ELSE IF StrLess(Head(s).rated_at, r.rated_at) THEN <<r>> \o s
    ELSE <<Head(s)>> \o InsertDesc(Tail(s), r)

RECURSIVE SortDesc(_)
SortDesc(s) == IF s = <<>> THEN <<>> ELSE InsertDesc(SortDesc(SubSeq(s, 1, Len(s) - 1)), s[Len(s)])

\* The iteration order of the set old.keys() - data.keys() is whatever the
\* interpreter's hashing gives: any order of its elements.
Orders(S) == {p \in [1..Cardinality(S) -> S] : \A i, j \in 1..Cardinality(S) : p[i] = p[j] => i = j}

\* The file douban_<username>.json: absent, not a JSON list, or a list.
Missing == [kind |-> "missing", items |-> <<>>]
Invalid == [kind |-> "invalid", items |-> <<>>]
ListFile(s) == [kind |-> "list", items |-> s]
Files == {Missing, Invalid} \cup {ListFile(s) : s \in SeqsUpTo(Records, MaxLen)}
NoMd == [kind |-> "missing", items |-> <<>>]

\* main, lines 312-316: the records of old whose id the scrape did not see
\* (taken in order `order`), appended to the scraped ones; sorted only when
\* there is at least one of them.  (Two variants come first: one forgets
\* the retained records, one appends the whole previous list.)
MergeDropOld(fresh, prev, order) == IF order # <<>> THEN SortDesc(fresh) ELSE fresh
MergeKeepStale(fresh, prev, order) == IF prev # <<>> THEN SortDesc(fresh \o prev) ELSE fresh
Merge(fresh, prev, order) ==
    LET kept == [i \in 1..Len(order) |-> DictGet(prev, order[i])]
    IN IF kept # <<>> THEN SortDesc(fresh \o kept) ELSE fresh

RecInit ==
    /\ rpc = "scrape"
    /\ results = <<>>
    /\ old = <<>>
    /\ data = <<>>
    /\ jsonFile \in Files
    /\ mdFile = NoMd

\* scrape, lines 203 and 219: one (id, record) pair of a parsed page goes
\* into the result dict.  The pages are merged one after the other in page
\* order by the main thread, whatever the pool's interleaving.
ParseRecord ==
    /\ rpc = "scrape"
    /\ \E r \in Records :
        /\ results' = DictSet(results, r)
        /\ Len(results') <= MaxLen
    /\ UNCHANGED <<rpc, old, data, jsonFile, mdFile, powVars, runVars, parseVars>>

ScrapeReturn ==
    /\ rpc = "scrape"
    /\ rpc' = "read"
    /\ UNCHANGED <<results, old, data, jsonFile, mdFile, powVars, runVars, parseVars>>

\* main, line 308, with read_json (234-242).
ReadJson ==
    /\ rpc = "read"
    /\ IF jsonFile.kind = "invalid"
       THEN rpc' = "raised" /\ old' = old
       ELSE rpc' = "merge" /\ old' = DictFrom(<<>>, jsonFile.items)
    /\ UNCHANGED <<results, data, jsonFile, mdFile, powVars, runVars, parseVars>>

\* main, lines 312-316.
MergeOld ==
    /\ rpc = "merge"
    /\ \E order \in Orders(IdsOf(old) \ IdsOf(results)) :
        data' = Merge(results, old, order)
    /\ rpc' = "write_json"
    /\ UNCHANGED <<results, old, jsonFile, mdFile, powVars, runVars, parseVars>>

\* main, line 319.
WriteJson ==
    /\ rpc = "write_json"
    /\ jsonFile' = ListFile(data)
    /\ rpc' = "write_md"
    /\ UNCHANGED <<results, old, data, mdFile, powVars, runVars, parseVars>>

\* main, line 322.
WriteMarkdown ==
    /\ rpc = "write_md"
    /\ mdFile' = ListFile(data)
    /\ rpc' = "done"
    /\ UNCHANGED <<results, old, data, jsonFile, powVars, runVars, parseVars>>

RecNext == ParseRecord \/ ScrapeReturn \/ ReadJson \/ MergeOld \/ WriteJson \/ WriteMarkdown

\* ------------------------------------------------- main with its threads
\* Thread 0 is the main thread; thread p >= 2 is the pool's task for listing
\* page p (ex.map submits one get_tree call per page 2..last_page).
Main == 0
Tasks == 2..(MaxTotal + 1) \cup 2..(MaxPoolTotal + 1)
Threads == {Main} \cup Tasks

\* What a GET can answer with a success status: real content, a page with
\* one of the two markers, a checkpoint page whose tok/cha/red inputs are
\* incomplete, a full checkpoint page.
Responses == {"content", "oneMarker", "partial", "challenge"}

\* _maybe_handle_pow, line 75: both 'id="cha"' and 'id="tok"' in the text.
HasMarkers(r) == r \in {"partial", "challenge"}
\* line 84: tok_nodes and cha_nodes and red_nodes.
\* (The variant takes the three inputs for present.)
HasFieldsMut(r) == TRUE
HasFields(r) == r = "challenge"
\* The response is handled as a challenge (lines 75-86 return it otherwise).
\* (The variant leaves out the test of line 84.)
IsChallengeMut(r) == HasMarkers(r)
IsChallenge(r) == HasMarkers(r) /\ HasFields(r)
\* What the parser gets from html.fromstring(res.content).
TreeOf(r) == IF HasMarkers(r) THEN "checkpoint" ELSE "content"

Active == {"get", "lockwait", "solve", "post", "released", "reget"}
Running == {p \in Tasks : pc[p] \in Active}

\* _pow_lock is one module-level Lock: free when nobody holds it.
\* (The variant is a lock of the call's own, never held by another thread.)
LockFreeMut == TRUE
LockFree == pow_lock = {}

\* The executor starts a queued task when one of its max_workers threads
\* is not running a task.
\* (The variant starts one task too many.)
HasIdleWorkerMut(n) == n <= PoolSize
HasIdleWorker(n) == n < PoolSize

\* scrape, line 210-211.
Clamp(n, m) ==
    IF m # {} /\ (\E k \in m : 0 < k /\ k < n) THEN CHOOSE k \in m : TRUE ELSE n
\* scrape, line 214: range(1, last_page) gives the pages 2..last_page.
\* (The variant is range(1, last_page + 1).)
TaskPagesMut(last) == 2..(last + 1)
TaskPages(last) == 2..last

\* A listing url is kept as its start parameter: none ({}) for the url of
\* line 199, {n} for f"{url}&start={n}".  Line 214 gives page k the start
\* (k - 1) * 15.  (The variant numbers the pages from 0.)
FirstUrl == {}
TaskUrlMut(page) == {page * PageSize}
TaskUrl(page) == {(page - 1) * PageSize}
\* The ids of the items that listing page p shows: two per page, the
\* second one shown again on the next page (the listing shifts when the
\* user rates a film while the scrape runs).
PageIds(p) == {p, p + 1}
\* parse_page yields a record for each comment-item of the tree; a
\* checkpoint page has none.
ParsedIds(p, t) == IF t = "content" THEN PageIds(p) ELSE {}
\* results.update(...): the records of page p replace those already there.
\* (The variant keeps the record an id already has.)
UpdateMut(d, p, ids) == [i \in DOMAIN d \cup ids |-> IF i \in DOMAIN d THEN d[i] ELSE p]
Update(d, p, ids) == [i \in DOMAIN d \cup ids |-> IF i \in ids THEN p ELSE d[i]]
\* One more GET of url u in the count of the urls requested.
AddUrl(b, u) ==
    [v \in DOMAIN b \cup {u} |->
        IF v \in DOMAIN b THEN (IF v = u THEN b[v] + 1 ELSE b[v]) ELSE 1]

\* What both specifications of a run start from.
RunStart ==
    /\ mpc = "start"
    /\ cur = 1
    /\ ptree = "none"
    /\ ppage = 1
    /\ total = 0
    /\ last_page = 0
    /\ raising = FALSE
    /\ pc = [t \in Threads |-> "idle"]
    /\ first = [t \in Threads |-> "none"]
    /\ hist = [t \in Threads |-> <<>>]
    /\ tree = [t \in Threads |-> "none"]
    /\ pow_lock = {}
    /\ failed = FALSE
    /\ jsonWritten = FALSE
    /\ mdWritten = FALSE
    /\ posted = [t \in Threads |-> "none"]
    /\ sent = [u \in {} |-> 0]
    /\ merged = <<>>
    /\ keyPage = [i \in {} |-> 0]

\* max_pages is None ({}) or the integer of --max-pages.
RunInit ==
    /\ listing \in 1..MaxTotal
    /\ max_pages \in {{}} \cup {{k} : k \in (0 - 1)..MaxTotal}
    /\ evLeft = MaxEvents
    /\ RunStart

\* The runs whose termination is checked: no --max-pages.
FairInit ==
    /\ listing \in 1..MaxFairTotal
    /\ max_pages = {}
    /\ evLeft = MaxFairEvents
    /\ RunStart

PoolInit ==
    /\ listing = MaxPoolTotal
    /\ max_pages = {}
    /\ evLeft = MaxPoolEvents
    /\ RunStart

\* ---- get_tree / _maybe_handle_pow, run by thread t
\* get_tree, line 127: session.get(url) is sent.
CallStart(t) ==
    /\ pc' = [pc EXCEPT ![t] = "get"]
    /\ first' = [first EXCEPT ![t] = "none"]
    /\ hist' = [hist EXCEPT ![t] = <<"GET">>]
    /\ tree' = [tree EXCEPT ![t] = "none"]
    /\ posted' = [posted EXCEPT ![t] = "none"]

\* Lines 127-128 and 72-96: the first response arrives.
GetResponse(t) ==
    /\ pc[t] = "get"
    /\ \/ /\ evLeft > 0                      \* raise_for_status raises
          /\ evLeft' = evLeft - 1
          /\ pc' = [pc EXCEPT ![t] = "fail"]
          /\ first' = [first EXCEPT ![t] = "error"]
          /\ failed' = TRUE
          /\ UNCHANGED <<tree>>
       \/ \E r \in Responses :
          /\ r # "content" => evLeft > 0
          /\ evLeft' = IF r # "content" THEN evLeft - 1 ELSE evLeft
          /\ first' = [first EXCEPT ![t] = r]
          /\ IF IsChallenge(r)
             THEN pc' = [pc EXCEPT ![t] = "lockwait"] /\ tree' = tree
             ELSE /\ pc' = [pc EXCEPT ![t] = "done"]
                  /\ tree' = [tree EXCEPT ![t] = TreeOf(r)]
          /\ UNCHANGED <<failed>>
    /\ UNCHANGED <<mainVars, hist, pow_lock, jsonWritten, mdWritten, logVars, powVars, recVars, parseVars>>

\* Line 98-100: `with _pow_lock:` is entered and _solve_pow starts.
Acquire(t) ==
    /\ pc[t] = "lockwait"
    /\ LockFree
    /\ pow_lock' = {t}
    /\ pc' = [pc EXCEPT ![t] = "solve"]
    /\ hist' = [hist EXCEPT ![t] = Append(@, "solve")]
    /\ UNCHANGED <<mainVars, first, tree, envVars, outVars, logVars, powVars, recVars, parseVars>>

\* Lines 100-118: _solve_pow returns, the POST is sent (pow_lock still held).
SolveReturn(t) ==
    /\ pc[t] = "solve"
    /\ pc' = [pc EXCEPT ![t] = "post"]
    /\ hist' = [hist EXCEPT ![t] = Append(@, "POST")]
    /\ UNCHANGED <<mainVars, first, tree, pow_lock, envVars, outVars, logVars, powVars, recVars, parseVars>>

\* A variant of PostResponse without r2.raise_for_status(): the call goes
\* on to the re-fetch whatever the POST's status.
PostResponseIgnoreStatus(t) ==
    /\ pc[t] = "post"
    /\ pow_lock' = {}
    /\ pc' = [pc EXCEPT ![t] = "released"]
    /\ \/ /\ evLeft > 0
          /\ evLeft' = evLeft - 1
          /\ posted' = [posted EXCEPT ![t] = "error"]
       \/ /\ posted' = [posted EXCEPT ![t] = "ok"]
          /\ evLeft' = evLeft
    /\ UNCHANGED <<mainVars, first, hist, tree, outVars, sent, merged, keyPage, powVars, recVars, parseVars>>

\* A variant of PostResponse with the re-fetch of line 121 inside the with
\* block: the pow_lock is still held when the POST has succeeded.
PostResponseHoldLock(t) ==
    /\ pc[t] = "post"
    /\ \/ /\ evLeft > 0
          /\ evLeft' = evLeft - 1
          /\ posted' = [posted EXCEPT ![t] = "error"]
          /\ pc' = [pc EXCEPT ![t] = "fail"]
          /\ failed' = TRUE
          /\ pow_lock' = {}
       \/ /\ posted' = [posted EXCEPT ![t] = "ok"]
          /\ pc' = [pc EXCEPT ![t] = "released"]
          /\ pow_lock' = pow_lock
          /\ UNCHANGED <<evLeft, failed>>
    /\ UNCHANGED <<mainVars, first, hist, tree, jsonWritten, mdWritten, sent, merged, keyPage, powVars, recVars, parseVars>>

\* A variant of PostResponse that releases the pow_lock only after a POST
\* that succeeded (an acquire() and release() pair without try/finally).
PostResponseKeepLock(t) ==
    /\ pc[t] = "post"
    /\ \/ /\ evLeft > 0
          /\ evLeft' = evLeft - 1
          /\ posted' = [posted EXCEPT ![t] = "error"]
          /\ pc' = [pc EXCEPT ![t] = "fail"]
          /\ failed' = TRUE
          /\ pow_lock' = pow_lock
       \/ /\ posted' = [posted EXCEPT ![t] = "ok"]
          /\ pc' = [pc EXCEPT ![t] = "released"]
          /\ pow_lock' = {}
          /\ UNCHANGED <<evLeft, failed>>
    /\ UNCHANGED <<mainVars, first, hist, tree, jsonWritten, mdWritten, sent, merged, keyPage, powVars, recVars, parseVars>>

\* Lines 118-119 and the end of the with block: the POST's answer; the
\* pow_lock is released whether raise_for_status raises or not.
PostResponse(t) ==
    /\ pc[t] = "post"
    /\ pow_lock' = {}
    /\ \/ /\ evLeft > 0
          /\ evLeft' = evLeft - 1
          /\ posted' = [posted EXCEPT ![t] = "error"]
          /\ pc' = [pc EXCEPT ![t] = "fail"]
          /\ failed' = TRUE
       \/ /\ posted' = [posted EXCEPT ![t] = "ok"]
          /\ pc' = [pc EXCEPT ![t] = "released"]
          /\ UNCHANGED <<evLeft, failed>>
    /\ UNCHANGED <<mainVars, first, hist, tree, jsonWritten, mdWritten, sent, merged, keyPage, powVars, recVars, parseVars>>

\* Line 121: session.get(original_url) is sent.
Refetch(t) ==
    /\ pc[t] = "released"
    /\ pc' = [pc EXCEPT ![t] = "reget"]
    /\ hist' = [hist EXCEPT ![t] = Append(@, "GET")]
    /\ UNCHANGED <<mainVars, first, tree, pow_lock, envVars, outVars, logVars, powVars, recVars, parseVars>>

\* Lines 122-123: the second response is returned as it is.
RegetResponse(t) ==
    /\ pc[t] = "reget"
    /\ \/ /\ evLeft > 0
          /\ evLeft' = evLeft - 1
          /\ pc' = [pc EXCEPT ![t] = "fail"]
          /\ failed' = TRUE
          /\ UNCHANGED <<tree>>
       \/ \E r \in Responses :
          /\ r # "content" => evLeft > 0
          /\ evLeft' = IF r # "content" THEN evLeft - 1 ELSE evLeft
          /\ pc' = [pc EXCEPT ![t] = "done"]
          /\ tree' = [tree EXCEPT ![t] = TreeOf(r)]
          /\ UNCHANGED <<failed>>
    /\ UNCHANGED <<mainVars, first, hist, pow_lock, jsonWritten, mdWritten, logVars, powVars, recVars, parseVars>>

\* ---- the pool
\* A worker takes the oldest queued task and calls get_tree(url).
TaskStart(p) ==
    /\ pc[p] = "queued"
    /\ \A q \in Tasks : q < p => pc[q] # "queued"
    /\ HasIdleWorker(Cardinality(Running))
    /\ CallStart(p)
    /\ sent' = AddUrl(sent, TaskUrl(p))
    /\ UNCHANGED <<mainVars, pow_lock, envVars, outVars, merged, keyPage, powVars, recVars, parseVars>>

\* ---- the main thread
\* An exception in the main thread: before the pool exists it leaves main;
\* inside the with block the executor's shutdown(wait=True) runs first.
Raise ==
    /\ failed' = TRUE
    /\ IF cur = 1 THEN mpc' = "raised" /\ raising' = raising
       ELSE mpc' = "shutdown" /\ raising' = TRUE

\* scrape, line 202.
MainStart ==
    /\ mpc = "start"
    /\ mpc' = "fetch"
    /\ CallStart(Main)
    /\ sent' = AddUrl(sent, FirstUrl)
    /\ UNCHANGED <<listing, max_pages, cur, ptree, ppage, total, last_page, raising, pow_lock, envVars, outVars, merged, keyPage, powVars, recVars, parseVars>>

\* Line 202: get_tree(url) returns or raises.
MainFetched ==
    /\ mpc = "fetch"
    /\ pc[Main] \in {"done", "fail"}
    /\ pc' = [pc EXCEPT ![Main] = "idle"]
    /\ IF pc[Main] = "done"
       THEN mpc' = "parse" /\ ptree' = tree[Main] /\ ppage' = cur
       ELSE mpc' = "raised" /\ ptree' = ptree /\ ppage' = ppage
    /\ UNCHANGED <<listing, max_pages, cur, total, last_page, raising, first, hist, tree, pow_lock, envVars, outVars, logVars, powVars, recVars, parseVars>>

\* parse_page, lines 153-157: a record's intro has no year, the subject
\* page is fetched by the thread that parses, the main thread.
ParseDetail ==
    /\ mpc = "parse"
    /\ ptree = "content"
    /\ evLeft > 0
    /\ evLeft' = evLeft - 1
    /\ mpc' = "detail"
    /\ CallStart(Main)
    /\ UNCHANGED <<listing, max_pages, cur, ptree, ppage, total, last_page, raising, pow_lock, outVars, sent, merged, keyPage, powVars, recVars, parseVars>>

\* Lines 157-162: the subject page is back; no year in it is a ValueError.
DetailFetched ==
    /\ mpc = "detail"
    /\ pc[Main] \in {"done", "fail"}
    /\ pc' = [pc EXCEPT ![Main] = "idle"]
    /\ \/ /\ pc[Main] = "done" /\ tree[Main] = "content"
          /\ mpc' = "parse"
          /\ UNCHANGED <<raising, evLeft, failed>>
       \/ /\ pc[Main] = "done" /\ tree[Main] = "content"
          /\ evLeft > 0
          /\ evLeft' = evLeft - 1
          /\ Raise
       \/ /\ pc[Main] = "done" /\ tree[Main] = "checkpoint"
          /\ evLeft' = evLeft
          /\ Raise
       \/ /\ pc[Main] = "fail"
          /\ evLeft' = evLeft
          /\ Raise
    /\ UNCHANGED <<listing, max_pages, cur, ptree, ppage, total, last_page, first, hist, tree, pow_lock, jsonWritten, mdWritten, logVars, powVars, recVars, parseVars>>

\* parse_page, lines 138-176: a record without id, title, known rating or
\* date raises.
ParseBadRecord ==
    /\ mpc = "parse"
    /\ ptree = "content"
    /\ evLeft > 0
    /\ evLeft' = evLeft - 1
    /\ Raise
    /\ UNCHANGED <<listing, max_pages, cur, ptree, ppage, total, last_page, callVars, jsonWritten, mdWritten, logVars, powVars, recVars, parseVars>>

\* The page's records are all in the result dict (lines 203, 219); after
\* the last task the with block is left.
ParseDone ==
    /\ mpc = "parse"
    /\ IF cur = 1 THEN mpc' = "count" /\ cur' = cur
       ELSE IF \E p \in TaskPages(last_page) : p > cur
            THEN mpc' = "await" /\ cur' = cur + 1
            ELSE mpc' = "shutdown" /\ cur' = cur
    /\ merged' = Append(merged, [page |-> ppage, tree |-> ptree])
    /\ keyPage' = Update(keyPage, ppage, ParsedIds(ppage, ptree))
    /\ UNCHANGED <<listing, max_pages, ptree, ppage, total, last_page, raising, callVars, envVars, outVars, posted, sent, powVars, recVars, parseVars>>

\* Lines 205-211: data-total-page of page 1, clamped.  number() of a
\* missing attribute is NaN and int(NaN) raises.
CountPages ==
    /\ mpc = "count"
    /\ \/ /\ ptree = "content"
          /\ total' = listing
          /\ last_page' = Clamp(listing, max_pages)
          /\ mpc' = "submit"
          /\ UNCHANGED <<raising, evLeft, failed>>
       \/ /\ ptree = "content"
          /\ evLeft > 0
          /\ evLeft' = evLeft - 1
          /\ Raise
          /\ UNCHANGED <<total, last_page>>
       \/ /\ ptree = "checkpoint"
          /\ evLeft' = evLeft
          /\ Raise
          /\ UNCHANGED <<total, last_page>>
    /\ UNCHANGED <<listing, max_pages, cur, ptree, ppage, callVars, jsonWritten, mdWritten, logVars, powVars, recVars, parseVars>>

\* Lines 214-216: ex.map submits every page's get_tree at once.
Submit ==
    /\ mpc = "submit"
    /\ pc' = [t \in Threads |-> IF t \in TaskPages(last_page) THEN "queued" ELSE pc[t]]
    /\ cur' = 2
    /\ mpc' = IF TaskPages(last_page) = {} THEN "shutdown" ELSE "await"
    /\ UNCHANGED <<listing, max_pages, ptree, ppage, total, last_page, raising, first, hist, tree, pow_lock, envVars, outVars, logVars, powVars, recVars, parseVars>>

\* A variant of Await that skips a page whose task raised.
AwaitSkipFailed ==
    /\ mpc = "await"
    /\ pc[cur] \in {"done", "fail"}
    /\ pc' = [pc EXCEPT ![cur] = "consumed"]
    /\ ptree' = IF pc[cur] = "done" THEN tree[cur] ELSE "checkpoint"
    /\ ppage' = cur
    /\ mpc' = "parse"
    /\ first' = [first EXCEPT ![cur] = "none"]
    /\ hist' = [hist EXCEPT ![cur] = <<>>]
    /\ tree' = [tree EXCEPT ![cur] = "none"]
    /\ posted' = [posted EXCEPT ![cur] = "none"]
    /\ UNCHANGED <<listing, max_pages, cur, total, last_page, raising, pow_lock, envVars, outVars, sent, merged, keyPage, powVars, recVars, parseVars>>

\* A variant of Await that takes the pages as their fetches complete (what
\* concurrent.futures.as_completed would give).
AwaitAsCompleted ==
    /\ mpc = "await"
    /\ \E p \in Tasks :
        /\ pc[p] \in {"done", "fail"}
        /\ IF pc[p] = "done"
           THEN /\ pc' = [pc EXCEPT ![p] = "consumed"]
                /\ ptree' = tree[p]
                /\ ppage' = p
                /\ mpc' = "parse"
                /\ raising' = raising
           ELSE /\ pc' = [t \in Threads |->
                           IF t = p THEN "consumed"
                           ELSE IF pc[t] = "queued" THEN "cancelled" ELSE pc[t]]
                /\ ptree' = ptree
                /\ ppage' = ppage
                /\ mpc' = "shutdown"
                /\ raising' = TRUE
        /\ first' = [first EXCEPT ![p] = "none"]
        /\ hist' = [hist EXCEPT ![p] = <<>>]
        /\ tree' = [tree EXCEPT ![p] = "none"]
        /\ posted' = [posted EXCEPT ![p] = "none"]
    /\ UNCHANGED <<listing, max_pages, cur, total, last_page, pow_lock, envVars, outVars, sent, merged, keyPage, powVars, recVars, parseVars>>

\* Line 216: the iterator of ex.map gives the results in page order.  A
\* task's exception is raised from the iterator, whose finally clause
\* cancels the futures that have not started.
Await ==
    /\ mpc = "await"
    /\ pc[cur] \in {"done", "fail"}
    /\ IF pc[cur] = "done"
       THEN /\ pc' = [pc EXCEPT ![cur] = "consumed"]
            /\ ptree' = tree[cur]
            /\ ppage' = cur
            /\ mpc' = "parse"
            /\ raising' = raising
       ELSE /\ pc' = [t \in Threads |->
                       IF t = cur THEN "consumed"
                       ELSE IF pc[t] = "queued" THEN "cancelled" ELSE pc[t]]
            /\ ptree' = ptree
            /\ ppage' = ppage
            /\ mpc' = "shutdown"
            /\ raising' = TRUE
    /\ first' = [first EXCEPT ![cur] = "none"]
    /\ hist' = [hist EXCEPT ![cur] = <<>>]
    /\ tree' = [tree EXCEPT ![cur] = "none"]
    /\ posted' = [posted EXCEPT ![cur] = "none"]
    /\ UNCHANGED <<listing, max_pages, cur, total, last_page, pow_lock, envVars, outVars, sent, merged, keyPage, powVars, recVars, parseVars>>

\* The end of the with block: shutdown(wait=True) returns when no task is
\* queued or running; then scrape returns or the exception goes on.
Shutdown ==
    /\ mpc = "shutdown"
    /\ \A p \in Tasks : pc[p] \notin Active \cup {"queued"}
    /\ mpc' = IF raising THEN "raised" ELSE "read"
    /\ UNCHANGED <<listing, max_pages, cur, ptree, ppage, total, last_page, raising, callVars, envVars, outVars, logVars, powVars, recVars, parseVars>>

\* main, lines 308-316: read_json (a file that is no list raises), merge.
RunReadJson ==
    /\ mpc = "read"
    /\ \/ mpc' = "write_json" /\ failed' = failed
       \/ mpc' = "raised" /\ failed' = TRUE
    /\ UNCHANGED <<listing, max_pages, cur, ptree, ppage, total, last_page, raising, callVars, envVars, jsonWritten, mdWritten, logVars, powVars, recVars, parseVars>>

\* main, line 319.
RunWriteJson ==
    /\ mpc = "write_json"
    /\ jsonWritten' = TRUE
    /\ mpc' = "write_md"
    /\ UNCHANGED <<listing, max_pages, cur, ptree, ppage, total, last_page, raising, callVars, envVars, failed, mdWritten, logVars, powVars, recVars, parseVars>>

\* main, line 322.
RunWriteMarkdown ==
    /\ mpc = "write_md"
    /\ mdWritten' = TRUE
    /\ mpc' = "finished"
    /\ UNCHANGED <<listing, max_pages, cur, ptree, ppage, total, last_page, raising, callVars, envVars, failed, jsonWritten, logVars, powVars, recVars, parseVars>>

ThreadStep ==
    \E t \in Threads :
        \/ GetResponse(t)
        \/ Acquire(t)
        \/ SolveReturn(t)
        \/ PostResponse(t)
        \/ Refetch(t)
        \/ RegetResponse(t)

PoolStep == \E p \in Tasks : TaskStart(p)

Next ==
    \/ ThreadStep
    \/ PoolStep
    \/ MainStart
    \/ MainFetched
    \/ ParseDetail
    \/ DetailFetched
    \/ ParseBadRecord
    \/ ParseDone
    \/ CountPages
    \/ Submit
    \/ Await
    \/ Shutdown
    \/ RunReadJson
    \/ RunWriteJson
    \/ RunWriteMarkdown

\* ------------------------------------------------------------ parse_page
\* The titles and the comment of one item.  A text is the sequence of its
\* characters, of five kinds: the space, the no-break space (white space
\* for Python's str.strip, not for XPath's normalize-space, which knows
\* space, tab, CR and LF only), the slash and two other characters.
Chars == {"sp", "nb", "sl", "a", "b"}
CommentChars == {"sp", "nb", "a"}
XmlSpace == {"sp"}
PySpace == {"sp", "nb"}

RECURSIVE LStrip(_, _)
LStrip(s, W) == IF s # <<>> /\ Head(s) \in W THEN LStrip(Tail(s), W) ELSE s
RECURSIVE RStrip(_, _)
RStrip(s, W) ==
    IF s # <<>> /\ s[Len(s)] \in W THEN RStrip(SubSeq(s, 1, Len(s) - 1), W) ELSE s
\* str.strip() with W the white space it removes.
Strip(s, W) == RStrip(LStrip(s, W), W)

\* A run of white space becomes one space.
RECURSIVE Collapse(_)
Collapse(s) ==
    IF Len(s) < 2 THEN s
    ELSE IF s[1] \in XmlSpace /\ s[2] \in XmlSpace THEN Collapse(Tail(s))
    ELSE <<s[1]>> \o Collapse(Tail(s))
\* XPath normalize-space().
NormalizeSpace(s) == Collapse(Strip(s, XmlSpace))

Separator == <<"sp", "sl", "sp">>
\* str.partition(" / "): the text before the first separator, the
\* separator, the text after it; the whole text and two empty strings when
\* there is none.
Partition(s) ==
    LET at == {i \in 1..(Len(s) - 2) : SubSeq(s, i, i + 2) = Separator}
    IN IF at = {} THEN <<s, <<>>, <<>>>>
       ELSE LET i == CHOOSE k \in at : \A j \in at : k <= j
            IN <<SubSeq(s, 1, i - 1), Separator, SubSeq(s, i + 3, Len(s))>>

\* Lines 142-147; a field that is None is {}, and is deleted at 190-192.
ParseTitles(text) ==
    LET parts == Partition(NormalizeSpace(text))
        zh == Strip(parts[1], PySpace)
        t == Strip(parts[3], PySpace)
    IN IF t = <<>> \/ t = zh
       THEN [title |-> zh, title_zh |-> {}]
       ELSE [title |-> t, title_zh |-> {zh}]
\* Line 179: `.strip() or None`.
ParseComment(text) ==
    LET c == Strip(text, PySpace) IN IF c = <<>> THEN {} ELSE {c}

NoRecord == [title |-> <<>>, title_zh |-> {}, comment |-> {}]

ParseInit ==
    /\ ppc = "item"
    /\ title_text \in SeqsUpTo(Chars, MaxTitle)
    /\ comment_text \in SeqsUpTo(CommentChars, MaxComment)
    /\ record = NoRecord

\* Lines 138-194 for one item whose id, year, rating and date are found:
\* the record is yielded, or line 149 raises for want of a title.
ParseItem ==
    /\ ppc = "item"
    /\ LET titles == ParseTitles(title_text)
       IN IF titles.title = <<>>
          THEN ppc' = "raised" /\ record' = record
          ELSE /\ ppc' = "emitted"
               /\ record' = [title |-> titles.title,
                             title_zh |-> titles.title_zh,
                             comment |-> ParseComment(comment_text)]
    /\ UNCHANGED <<title_text, comment_text, powVars, recVars, runVars>>

ParseNext == ParseItem

\* -------------------------------------------------------- specifications
PowIdle == difficulty = 0 /\ nonce = 0 /\ zeros = <<>> /\ sol = {}
RecIdle ==
    /\ rpc = "off" /\ results = <<>> /\ old = <<>> /\ data = <<>>
    /\ jsonFile = Missing /\ mdFile = NoMd
RunIdle ==
    /\ listing = 0 /\ max_pages = {} /\ mpc = "off" /\ cur = 1 /\ ptree = "none" /\ ppage = 1
    /\ total = 0 /\ last_page = 0 /\ raising = FALSE
    /\ pc = [t \in Threads |-> "idle"] /\ first = [t \in Threads |-> "none"]
    /\ hist = [t \in Threads |-> <<>>] /\ tree = [t \in Threads |-> "none"]
    /\ pow_lock = {} /\ evLeft = 0
    /\ failed = FALSE /\ jsonWritten = FALSE /\ mdWritten = FALSE
    /\ posted = [t \in Threads |-> "none"] /\ sent = [u \in {} |-> 0]
    /\ merged = <<>> /\ keyPage = [i \in {} |-> 0]

ParseIdle == ppc = "off" /\ title_text = <<>> /\ comment_text = <<>> /\ record = NoRecord

PowNext == PowStep

InitPow == PowInit /\ RecIdle /\ RunIdle /\ ParseIdle
InitRec == RecInit /\ PowIdle /\ RunIdle /\ ParseIdle
Init == RunInit /\ PowIdle /\ RecIdle /\ ParseIdle
InitPool == PoolInit /\ PowIdle /\ RecIdle /\ ParseIdle
InitParse == ParseInit /\ PowIdle /\ RecIdle /\ RunIdle
InitFair == FairInit /\ PowIdle /\ RecIdle /\ ParseIdle

SpecPow == InitPow /\ [][PowNext]_vars
SpecRec == InitRec /\ [][RecNext]_vars
Spec == Init /\ [][Next]_vars
SpecPool == InitPool /\ [][Next]_vars
SpecParse == InitParse /\ [][ParseNext]_vars

\* The steps of Spec with the scheduling the run relies on: a thread that
\* can take a step takes one in the end, a request sent is answered and
\* _solve_pow returns.  Every step of Next is such a step.
Fairness == WF_vars(Next)
SpecFair == InitFair /\ [][Next]_vars /\ Fairness

\* ------------------------------------------------------------------ claims
Solving == {t \in Threads : pc[t] = "solve"}
InFlight == {t \in Threads : pc[t] \in {"get", "reget"}}
FullFlow == <<"GET", "solve", "POST", "GET">>
\* The listing pages whose GET has been sent.
Requested ==
    (IF mpc = "start" THEN {} ELSE {1})
        \cup {p \in Tasks : pc[p] \notin {"idle", "queued", "cancelled"}}
ScrapeReturned == mpc \in {"read", "write_json", "write_md", "finished"}
Previous == jsonFile.items
Merged == rpc = "write_json"
SortedDesc(s) == \A i, j \in 1..Len(s) : i < j => ~StrLess(s[i].rated_at, s[j].rated_at)

\* C1: at most one thread (pool task or main thread) is inside _solve_pow
\* at any time.
C1_OneSolve == Cardinality(Solving) <= 1
\* Two threads got a checkpoint page: one solves, the other waits.
C1_Witness == \E t, u \in Threads : pc[t] = "solve" /\ pc[u] = "lockwait"

\* C2, as stated: every get_tree call that returns after a first response
\* with both markers did one solve, one POST and one re-fetch, in that
\* order; a call whose first response lacks a marker did none.
C2_Original ==
    \A t \in Threads :
        pc[t] = "done" =>
            IF first[t] \in {"partial", "challenge"}
            THEN hist[t] = FullFlow
            ELSE hist[t] = <<"GET">> /\ tree[t] = "content"
\* C2, amended: the solve, POST and re-fetch happen exactly when the first
\* response has both markers and the tok, cha and red values; a call that
\* fails after such a response did one solve and one POST and at most the
\* one re-fetch; a first response without both markers or without those
\* values is returned as it is, with no solve and no POST.
C2_Amended ==
    \A t \in Threads :
        /\ pc[t] = "done" =>
            IF first[t] = "challenge"
            THEN hist[t] = FullFlow
            ELSE /\ hist[t] = <<"GET">>
                 /\ tree[t] = (IF first[t] = "partial" THEN "checkpoint" ELSE "content")
        /\ (pc[t] = "fail" /\ first[t] = "challenge") =>
            hist[t] \in {<<"GET", "solve", "POST">>, FullFlow}
        /\ (pc[t] = "fail" /\ first[t] # "challenge") => hist[t] = <<"GET">>
C2_Witness ==
    \E t, u \in Threads :
        /\ pc[t] = "done" /\ first[t] = "challenge" /\ hist[t] = FullFlow
        /\ pc[u] = "done" /\ first[u] = "partial"

\* C3, as stated: every record of the previous list whose id the scrape did
\* not see is in the merged list.
C3_Original ==
    Merged =>
        \A i \in 1..Len(Previous) :
            Previous[i].id \notin IdsOf(results) => Previous[i] \in Range(data)
\* C3, amended: for every id of the previous list that the scrape did not
\* see, the last record of the previous list with that id is in the merged
\* list, unchanged.
C3_Amended ==
    Merged =>
        \A i \in 1..Len(Previous) :
            (/\ Previous[i].id \notin IdsOf(results)
             /\ \A j \in (i + 1)..Len(Previous) : Previous[j].id # Previous[i].id)
                => Previous[i] \in Range(data)
C3_Witness ==
    /\ Merged
    /\ results # <<>>
    /\ \E i \in 1..Len(Previous) : Previous[i].id \notin IdsOf(results)

\* C4: for an id both scraped and in the previous list, the merged list
\* holds the scraped record and no other record of that id.
C4_FreshWins ==
    Merged =>
        \A i \in 1..Len(results) :
            results[i].id \in IdsOf(Previous) =>
                /\ results[i] \in Range(data)
                /\ \A j \in 1..Len(data) : data[j].id = results[i].id => data[j] = results[i]
C4_Witness ==
    /\ Merged
    /\ \E i \in 1..Len(results), j \in 1..Len(Previous) :
        results[i].id = Previous[j].id /\ results[i] # Previous[j]

\* C5: the merged list is sorted by rated_at, latest first.
C5_Sorted == Merged => SortedDesc(data)

\* C6: when the scraped records and the previous list are the same set of
\* records, the merged list holds exactly them, latest first, and merging
\* again against it changes nothing.
C6_Idempotent ==
    (Merged /\ Range(results) = Range(Previous)) =>
        /\ Range(data) = Range(results)
        /\ Len(data) = Cardinality(Range(results))
        /\ SortedDesc(data)
        /\ \A order \in Orders(IdsOf(data) \ IdsOf(results)) :
            Merge(results, DictFrom(<<>>, data), order) = data

\* C7, as stated: a max_pages given and smaller than the page count of
\* page 1 becomes the last page, and no page beyond it is requested.
C7_Original ==
    \A k \in max_pages :
        (total > 0 /\ k < total) => last_page = k /\ Requested \subseteq 1..k
\* C7, amended: the same for a max_pages that is also positive; a scrape
\* that returns has then requested exactly the pages 1..max_pages.
C7_Amended ==
    \A k \in max_pages :
        (total > 0 /\ 0 < k /\ k < total) =>
            /\ last_page = k
            /\ Requested \subseteq 1..k
            /\ ScrapeReturned => Requested = 1..k
C7_Witness ==
    /\ ScrapeReturned
    /\ \E k \in max_pages : k = 2 /\ k < total /\ Requested = {1, 2}

\* C8, as stated: never more than 5 GETs in flight, the main thread's
\* detail-page GETs counted.
C8_Original == Cardinality(InFlight) <= PoolSize
\* C8, amended: never more than 5 GETs of the pool's tasks in flight; with
\* the main thread's own GET, never more than 6.
C8_Amended ==
    /\ Cardinality(InFlight \cap Tasks) <= PoolSize
    /\ Cardinality(InFlight) <= PoolSize + 1
\* Five listing GETs of the pool and the main thread's detail GET together.
C8_Witness == Cardinality(InFlight \cap Tasks) = PoolSize /\ mpc = "detail" /\ pc[Main] = "get"

\* C9: once a fetch, a challenge POST, a record's parse or the read of the
\* previous file has failed, the run never gets to write_json or
\* write_markdown, and scrape and main do not return normally.
C9_FailFast ==
    failed => ~jsonWritten /\ ~mdWritten /\ ~ScrapeReturned
C9_Witness ==
    /\ failed /\ mpc = "raised" /\ raising
    /\ \E p \in Tasks : pc[p] = "fail"

\* C10: a returned nonce is >= 1, its digest starts with `difficulty`
\* zeros and no smaller nonce's digest does; with difficulty 0 it is 1.
C10_Smallest ==
    \A n \in sol :
        /\ n >= 1
        /\ zeros[n] >= difficulty
        /\ \A m \in 1..(n - 1) : zeros[m] < difficulty
        /\ difficulty = 0 => n = 1
C10_Witness == difficulty >= 1 /\ \E n \in sol : n >= 3

\* C11: a get_tree call that solved a challenge and whose re-fetch was
\* answered by a checkpoint page again does not return: the page it hands
\* to the parser after the one retry is never a checkpoint page.
C11_BlockedRetryFatal ==
    \A t \in Threads :
        (pc[t] = "done" /\ hist[t] = FullFlow) => tree[t] # "checkpoint"

\* C12: a get_tree call whose challenge POST was answered with a
\* non-success status has failed: it sent no re-fetch GET and did no second
\* solve (its requests are GET, solve, POST and no more), and it returned
\* no page.
C12_PostFailure ==
    \A t \in Threads :
        posted[t] = "error" =>
            /\ pc[t] \in {"fail", "idle"}
            /\ failed
            /\ hist[t] = <<"GET", "solve", "POST">>
            /\ tree[t] = "none"
\* A pool task's POST failed while the main thread waits for its page.
C12_Witness ==
    \E p \in Tasks : posted[p] = "error" /\ pc[p] = "fail" /\ mpc = "await"

\* The pool's pages whose result the main thread has taken from ex.map.
Consumed == {p \in Tasks : pc[p] = "consumed"}

\* C13, as stated: a page whose fetch has completed never waits for a
\* lower-numbered page whose fetch is still under way.
C13_Original ==
    ~(/\ mpc = "await"
      /\ pc[cur] \in Active
      /\ \E p \in Tasks : p > cur /\ pc[p] = "done")
\* C13, amended: the pool's pages are taken for parsing and merging in
\* ascending page order, whatever order their fetches complete in: a page
\* is taken only when every lower-numbered page has been taken, and the
\* page being parsed is the lowest one not merged yet.
C13_Amended ==
    /\ \A p \in Consumed : \A q \in TaskPages(p) : q \in Consumed
    /\ (mpc = "parse" /\ cur > 1) => (cur \in Consumed /\ \A q \in Consumed : q <= cur)
\* A completed page waits while the main thread waits for a lower page.
C13_Witness ==
    /\ mpc = "await"
    /\ pc[cur] \in Active
    /\ \E p \in Tasks : p > cur /\ pc[p] = "done"

\* The url of listing page k as the specification gives it: no start for
\* page 1, start = (k - 1) * 15 for the others.
PageUrl(k) == IF k = 1 THEN {} ELSE {(k - 1) * 15}
MergedPages == {merged[i].page : i \in 1..Len(merged)}
\* The ids parsed from the pages merged so far.
MergedIds == UNION {ParsedIds(merged[i].page, merged[i].tree) : i \in 1..Len(merged)}

\* C14: when scrape has returned, with L = last_page, the listing GETs it
\* issued are those of the pages 1..L, one each, page 1 without start and
\* page k with start = (k - 1) * 15; the pages merged are 1..L, each once,
\* and the keys of the result dict are the ids parsed from them.
C14_EachPageOnce ==
    ScrapeReturned =>
        /\ DOMAIN sent = {PageUrl(k) : k \in 1..last_page}
        /\ \A u \in DOMAIN sent : sent[u] = 1
        /\ MergedPages = 1..last_page
        /\ Len(merged) = last_page
        /\ DOMAIN keyPage = MergedIds
\* A run over three pages or more has returned.
C14_Witness == ScrapeReturned /\ last_page >= 3 /\ Cardinality(DOMAIN keyPage) > last_page

\* C15: a get_tree call whose first response has both markers but lacks
\* one of the tok, cha and red inputs returns that response as it is: it
\* never takes the lock, solves nothing, sends no POST and no second GET.
C15_PartialUnmodified ==
    \A t \in Threads :
        first[t] = "partial" =>
            /\ pc[t] \in {"done", "idle"}
            /\ hist[t] = <<"GET">>
            /\ posted[t] = "none"
            /\ t \notin pow_lock
            /\ tree[t] = "checkpoint"
\* A pool task returned such a page while another call solves a challenge.
C15_Witness ==
    \E p \in Tasks, t \in Threads :
        first[p] = "partial" /\ pc[p] = "done" /\ pc[t] = "solve"

\* C16: a record that parse_page has yielded has a non-empty title, and a
\* title_zh or comment it carries is a non-empty string.
C16_NoEmptyField ==
    ppc = "emitted" =>
        /\ record.title # <<>>
        /\ <<>> \notin record.title_zh
        /\ <<>> \notin record.comment

\* The merged pages on which id i was parsed.
PagesOf(i) ==
    {merged[j].page : j \in {k \in 1..Len(merged) : i \in ParsedIds(merged[k].page, merged[k].tree)}}

\* C17: whatever the interleaving of the fetches, the pages are merged in
\* the order 1, 2, 3, ..., and the result dict is the one that order
\* gives: each id's record is the one of the highest-numbered merged page
\* that shows the id.
C17_PageOrder ==
    /\ \A i \in 1..Len(merged) : merged[i].page = i
    /\ \A i \in DOMAIN keyPage :
        /\ keyPage[i] \in PagesOf(i)
        /\ \A q \in PagesOf(i) : q <= keyPage[i]
\* An id shown on pages 2 and 3 after a page 3 that completed before page 2.
C17_Witness ==
    /\ ScrapeReturned
    /\ PagesOf(3) = {2, 3}
    /\ keyPage[3] = 3

\* scrape has returned its result dict or has raised.
ScrapeEnded == ScrapeReturned \/ mpc = "raised"
LockWaiters == {t \in Threads : pc[t] = "lockwait"}

\* C18: only a thread inside the critical section (solving, or waiting for
\* its POST's answer) holds the pow_lock, so the lock is free after every
\* exit, the exit by a failed POST included; a thread that waits for the
\* lock gets it; and every run of scrape ends, returning or raising.
C18_Terminates ==
    /\ [](\A t \in pow_lock : pc[t] \in {"solve", "post"})
    /\ (LockWaiters # {}) ~> (LockWaiters = {})
    /\ <>ScrapeEnded
\* A POST failed and another thread got the lock after it.
C18_Witness ==
    \E t, u \in Threads :
        posted[t] = "error" /\ pc[t] = "fail" /\ pc[u] = "solve" /\ pow_lock = {u}

Posting == {t \in Threads : pc[t] = "post"}

\* C19: at most one challenge POST is in flight; the thread whose POST is
\* in flight holds the pow_lock and sent it right after its own solve; a
\* thread whose POST has succeeded, its re-fetch GET sent or about to be,
\* does not hold the pow_lock.
C19_PostUnderLock ==
    /\ Cardinality(Posting) <= 1
    /\ \A t \in Posting : pow_lock = {t} /\ hist[t] = <<"GET", "solve", "POST">>
    /\ \A t \in Threads :
        pc[t] \in {"released", "reget"} => (t \notin pow_lock /\ posted[t] = "ok")
\* One thread's re-fetch is in flight while another thread's POST is.
C19_Witness ==
    \E t, u \in Threads : pc[t] = "reget" /\ pc[u] = "post" /\ pow_lock = {u}

\* C20: the merged list has no id twice, its ids are those of the scraped
\* records and of the previous list together, and each of its records is
\* the scraped record of its id or, for an id the scrape did not see, the
\* last record of that id in the previous list.
C20_UniqueIds ==
    Merged =>
        /\ \A i, j \in 1..Len(data) : data[i].id = data[j].id => i = j
        /\ IdsOf(data) = IdsOf(results) \cup IdsOf(Previous)
        /\ \A k \in 1..Len(data) :
            IF data[k].id \in IdsOf(results)
            THEN data[k] \in Range(results)
            ELSE \E i \in 1..Len(Previous) :
                    /\ Previous[i] = data[k]
                    /\ \A j \in (i + 1)..Len(Previous) : Previous[j].id # data[k].id
\* The previous list has two different records of an id the scrape did not
\* see, and the scrape saw another id.
C20_Witness ==
    /\ Merged
    /\ results # <<>>
    /\ \E i, j \in 1..Len(Previous) :
        /\ i < j
        /\ Previous[i].id = Previous[j].id
        /\ Previous[i] # Previous[j]
        /\ Previous[i].id \notin IdsOf(results)

====
